---- MODULE Spec2Model ----
(***************************************************************************)
(* Model of src/model_training/process_data.py: the label codec            *)
(* (rgb / label index / one-hot conversions), the tiler (tile_image), the  *)
(* dataset partitioner (process_data) and the paired batch generator       *)
(* (make_input_output_generator).                                          *)
(*                                                                         *)
(* Four specifications share the variables:                                *)
(*   Spec       process_data, step by step, with I/O failures              *)
(*   SpecTile   tile_image applied to bounded images, sizes and strides    *)
(*   SpecCodec  the codec functions applied, chained, to bounded batches   *)
(*   SpecGen    make_input_output_generator and the tuples it yields       *)
(***************************************************************************)
EXTENDS Integers, Sequences, FiniteSets, TLC

VARIABLES
    \* ---- process_data ----
    listing,                \* listdir(raw_output_path): entries [name, ext], in listing order
    file_names,             \* the names of the listing that end with '.tif'
    raw_shape,              \* file name -> [input, output]: <<rows, cols>> of the two raw images
    dir_state,              \* partition -> role -> "absent" | "exists" | "blocked"
    files,                  \* partition -> role -> (N -> tile saved as N.png)
    pc,                     \* position of process_data
    partition,              \* partition_name of the running _process_data
    train_file_names,
    validation_file_names,
    file_pos,               \* position of the for loop over file_names (1-based)
    input_tiles,
    output_tiles,
    tile_pos,               \* position of the for loop over zip(input_tiles, output_tiles)
    proc_file_index,
    \* ---- tile_image ----
    t_im,                   \* the image given to tile_image: [name, role, rows, cols]
    t_size,
    t_stride,
    t_tiles,                \* the list tile_image returned
    t_pc,
    \* ---- label codec ----
    orig,                   \* the batch the chain of conversions started from
    kind,                   \* what val is: "rgb" | "label" | "one_hot"
    val,                    \* the current batch
    ops,                    \* the conversions applied so far, in order
    \* ---- batch generator ----
    disk,                   \* role -> (N -> pixels of N.png) under base_path
    batch_size,
    input_gen,              \* the directory iterator feeding the input batches
    output_gen,             \* the directory iterator feeding the output batches
    drawn,                  \* the samples of the last draw: <<[n, hflip, vflip], ...>>
    yielded,                \* the last tuple <<input batch, output batch>>
    g_pc

vars == <<listing, file_names, raw_shape, dir_state, files, pc, partition,
          train_file_names, validation_file_names, file_pos, input_tiles,
          output_tiles, tile_pos, proc_file_index,
          t_im, t_size, t_stride, t_tiles, t_pc,
          orig, kind, val, ops,
          disk, batch_size, input_gen, output_gen, drawn, yielded, g_pc>>

proc_vars == <<listing, file_names, raw_shape, dir_state, files, pc, partition,
               train_file_names, validation_file_names, file_pos, input_tiles,
               output_tiles, tile_pos, proc_file_index>>
tile_vars == <<t_im, t_size, t_stride, t_tiles, t_pc>>
codec_vars == <<orig, kind, val, ops>>
gen_vars == <<disk, batch_size, input_gen, output_gen, drawn, yielded, g_pc>>

(***************************************************************************)
(* Program constants                                                       *)
(***************************************************************************)
INPUT == "input"
OUTPUT == "output"
TRAIN == "train"
VALIDATION == "validation"

\* train_ratio = 0.75, as the exact fraction train_ratio_num / train_ratio_den
train_ratio_num == 75
train_ratio_den == 100
tile_size == 200
tile_stride == 100

label_keys == << <<255, 255, 255>>,
                 <<0, 0, 255>>,
                 <<0, 255, 255>>,
                 <<0, 255, 0>>,
                 <<255, 255, 0>>,
                 <<255, 0, 0>> >>
nb_labels == Len(label_keys)

(***************************************************************************)
(* Bounds of the model                                                     *)
(***************************************************************************)
MaxFiles == 4       \* files in the listing
MaxDim == 6         \* rows / cols of an image given to tile_image
MaxSize == 4        \* size given to tile_image
MaxStride == 3      \* stride given to tile_image
MaxPixels == 2      \* columns of a batch given to the codec (1 image, 1 row)
MaxOps == 2         \* conversions chained on one batch
MaxTiles == 2       \* tile pairs on disk under base_path
MaxBatch == 2       \* batch_size

Min(a, b) == IF a <= b THEN a ELSE b
Range(s) == {s[i] : i \in DOMAIN s}

(***************************************************************************)
(* Label codec                                                             *)
(***************************************************************************)
\* One pixel of rgb_to_label_batch: label_batch starts at 0 (np.zeros) and
\* each key of label_keys, in order, overwrites it where its mask matches.
RECURSIVE RgbToLabelScan(_, _, _)
RgbToLabelScan(px, label, acc) ==
    IF label >= nb_labels THEN acc
    ELSE LET key == label_keys[label + 1]
             mask == px[1] = key[1] /\ px[2] = key[2] /\ px[3] = key[3]
         IN RgbToLabelScan(px, label + 1, IF mask THEN label ELSE acc)

\* rgb_to_label_pixel with the blue channel left out of the mask
rgb_to_label_pixel_two_channels(px) ==
    RgbToLabelScan(<<px[1], px[2], label_keys[1][3]>>, 0, 0)

rgb_to_label_pixel(px) == RgbToLabelScan(px, 0, 0)

rgb_to_label_batch(rgb_batch) ==
    [b \in DOMAIN rgb_batch |->
        [r \in DOMAIN rgb_batch[b] |->
            [c \in DOMAIN rgb_batch[b][r] |-> rgb_to_label_pixel(rgb_batch[b][r][c])]]]

\* label_to_one_hot_pixel with the channel index off by one
label_to_one_hot_pixel_shifted(lab) ==
    [ch \in 1..nb_labels |-> IF lab = ch THEN 1 ELSE 0]

\* One pixel of label_to_one_hot_batch: channel label is set to 1 where
\* label_batch == label, for label in range(nb_labels); the rest stays 0.
label_to_one_hot_pixel(lab) ==
    [ch \in 1..nb_labels |-> IF lab = ch - 1 THEN 1 ELSE 0]

label_to_one_hot_batch(label_batch) ==
    [b \in DOMAIN label_batch |->
        [r \in DOMAIN label_batch[b] |->
            [c \in DOMAIN label_batch[b][r] |-> label_to_one_hot_pixel(label_batch[b][r][c])]]]

rgb_to_one_hot_batch(rgb_batch) == label_to_one_hot_batch(rgb_to_label_batch(rgb_batch))

\* One pixel of label_to_rgb_batch: rgb_batch starts at zeros and each key
\* is written where label_batch == label.
RECURSIVE LabelToRgbScan(_, _, _)
LabelToRgbScan(lab, label, acc) ==
    IF label >= nb_labels THEN acc
    ELSE LabelToRgbScan(lab, label + 1, IF lab = label THEN label_keys[label + 1] ELSE acc)

\* label_to_rgb_pixel looking the key up one entry too far
label_to_rgb_pixel_shifted(lab) == LabelToRgbScan(lab + 1, 0, <<0, 0, 0>>)

label_to_rgb_pixel(lab) == LabelToRgbScan(lab, 0, <<0, 0, 0>>)

label_to_rgb_batch(label_batch) ==
    [b \in DOMAIN label_batch |->
        [r \in DOMAIN label_batch[b] |->
            [c \in DOMAIN label_batch[b][r] |-> label_to_rgb_pixel(label_batch[b][r][c])]]]

\* np.argmax over the channel axis: the first index holding the maximum.
one_hot_to_label_pixel(v) ==
    (CHOOSE i \in DOMAIN v :
        /\ \A j \in DOMAIN v : v[j] <= v[i]
        /\ \A j \in DOMAIN v : j < i => v[j] < v[i]) - 1

one_hot_to_label_batch(one_hot_batch) ==
    [b \in DOMAIN one_hot_batch |->
        [r \in DOMAIN one_hot_batch[b] |->
            [c \in DOMAIN one_hot_batch[b][r] |-> one_hot_to_label_pixel(one_hot_batch[b][r][c])]]]

one_hot_to_rgb_batch(one_hot_batch) == label_to_rgb_batch(one_hot_to_label_batch(one_hot_batch))

(***************************************************************************)
(* Tiler                                                                   *)
(***************************************************************************)
\* range(0, n, stride) as a sequence
PyRange(n, stride) == [i \in 1..((n + stride - 1) \div stride) |-> (i - 1) * stride]

\* im[row:row+size, col:col+size, :]: a slice is clipped to the image
Slice(im, row, col, size) ==
    [name |-> im.name, role |-> im.role, row |-> row, col |-> col,
     rows |-> Min(row + size, im.rows) - row,
     cols |-> Min(col + size, im.cols) - col]

\* tile_image without the boundary test of line 113: partial tiles are kept
tile_image_no_discard(im, size, stride) ==
    LET rs == PyRange(im.rows, stride)
        cs == PyRange(im.cols, stride)
        nc == Len(cs)
    IN [k \in 1..(Len(rs) * nc) |->
           Slice(im, rs[((k - 1) \div nc) + 1], cs[((k - 1) % nc) + 1], size)]

tile_image(im, size, stride) ==
    LET rows == im.rows
        cols == im.cols
        rs == PyRange(rows, stride)
        cs == PyRange(cols, stride)
        nc == Len(cs)
        \* the (row, col) pairs in the order the nested loops visit them
        visits == [k \in 1..(Len(rs) * nc) |->
                      <<rs[((k - 1) \div nc) + 1], cs[((k - 1) % nc) + 1]>>]
        Accept(rc) == rc[1] + size <= rows /\ rc[2] + size <= cols
        kept == SelectSeq(visits, Accept)
    IN [k \in 1..Len(kept) |-> Slice(im, kept[k][1], kept[k][2], size)]

load_image(role, name, shape) ==
    [name |-> name, role |-> role, rows |-> shape[1], cols |-> shape[2]]

(***************************************************************************)
(* Values the variables of a specification hold while another one runs     *)
(***************************************************************************)
NoFiles == [p \in {TRAIN, VALIDATION} |-> [r \in {INPUT, OUTPUT} |-> <<>>]]

IdleProc ==
    /\ listing = <<>>
    /\ file_names = <<>>
    /\ raw_shape = <<>>
    /\ dir_state = [p \in {TRAIN, VALIDATION} |-> [r \in {INPUT, OUTPUT} |-> "absent"]]
    /\ files = NoFiles
    /\ pc = "idle"
    /\ partition = TRAIN
    /\ train_file_names = <<>>
    /\ validation_file_names = <<>>
    /\ file_pos = 1
    /\ input_tiles = <<>>
    /\ output_tiles = <<>>
    /\ tile_pos = 1
    /\ proc_file_index = 0

IdleTile ==
    /\ t_im = [name |-> "im", role |-> INPUT, rows |-> 0, cols |-> 0]
    /\ t_size = 1
    /\ t_stride = 1
    /\ t_tiles = <<>>
    /\ t_pc = "idle"

IdleCodec ==
    /\ orig = <<>>
    /\ kind = "idle"
    /\ val = <<>>
    /\ ops = <<>>

IdleGen ==
    /\ disk = [r \in {INPUT, OUTPUT} |-> <<>>]
    /\ batch_size = 1
    /\ input_gen = [path |-> "none", scale |-> FALSE]
    /\ output_gen = [path |-> "none", scale |-> FALSE]
    /\ drawn = <<>>
    /\ yielded = <<>>
    /\ g_pc = "idle"

(***************************************************************************)
(* SpecTile: tile_image on every image of up to MaxDim x MaxDim pixels,    *)
(* every size in 1..MaxSize and every stride in 1..MaxStride               *)
(***************************************************************************)
InitTile ==
    /\ IdleProc /\ IdleCodec /\ IdleGen
    /\ \E rows \in 0..MaxDim, cols \in 0..MaxDim :
          t_im = [name |-> "im", role |-> INPUT, rows |-> rows, cols |-> cols]
    /\ t_size \in 1..MaxSize
    /\ t_stride \in 1..MaxStride
    /\ t_tiles = <<>>
    /\ t_pc = "call"

CallTileImage ==
    /\ t_pc = "call"
    /\ t_tiles' = tile_image(t_im, t_size, t_stride)
    /\ t_pc' = "done"
    /\ UNCHANGED <<t_im, t_size, t_stride, proc_vars, codec_vars, gen_vars>>

NextTile == CallTileImage

SpecTile == InitTile /\ [][NextTile]_vars

(***************************************************************************)
(* SpecCodec: the codec functions applied, one after the other, to a batch *)
(* of one image of one row of MaxPixels pixels                             *)
(***************************************************************************)
\* channel values of the rgb batches: both ends of 0..255 and a value between
Chan == {0, 128, 255}
RgbPixels == Chan \X Chan \X Chan
\* label indexes: every class index and one value out of range on each side
LabelValues == (0 - 1)..nb_labels

RgbBatches == {<< <<row>> >> : row \in [1..MaxPixels -> RgbPixels]}
LabelBatches == {<< <<row>> >> : row \in [1..MaxPixels -> LabelValues]}

InitCodec ==
    /\ IdleProc /\ IdleTile /\ IdleGen
    /\ \/ kind = "rgb" /\ orig \in RgbBatches
       \/ kind = "label" /\ orig \in LabelBatches
    /\ val = orig
    /\ ops = <<>>

Apply(name, from, to, result) ==
    /\ kind = from
    /\ Len(ops) < MaxOps
    /\ val' = result
    /\ kind' = to
    /\ ops' = Append(ops, name)
    /\ UNCHANGED <<orig, proc_vars, tile_vars, gen_vars>>

CallRgbToLabel == Apply("rgb_to_label_batch", "rgb", "label", rgb_to_label_batch(val))
CallLabelToOneHot == Apply("label_to_one_hot_batch", "label", "one_hot", label_to_one_hot_batch(val))
CallRgbToOneHot == Apply("rgb_to_one_hot_batch", "rgb", "one_hot", rgb_to_one_hot_batch(val))
CallLabelToRgb == Apply("label_to_rgb_batch", "label", "rgb", label_to_rgb_batch(val))
CallOneHotToLabel == Apply("one_hot_to_label_batch", "one_hot", "label", one_hot_to_label_batch(val))
CallOneHotToRgb == Apply("one_hot_to_rgb_batch", "one_hot", "rgb", one_hot_to_rgb_batch(val))

NextCodec ==
    \/ CallRgbToLabel
    \/ CallLabelToOneHot
    \/ CallRgbToOneHot
    \/ CallLabelToRgb
    \/ CallOneHotToLabel
    \/ CallOneHotToRgb

SpecCodec == InitCodec /\ [][NextCodec]_vars

(***************************************************************************)
(* Spec: process_data                                                      *)
(***************************************************************************)
PARTITIONS == {TRAIN, VALIDATION}
ROLES == {INPUT, OUTPUT}

\* The raw images of one file name: <<rows, cols>> of the input image and of
\* the label image. One tile per image, two tiles per image, and a pair whose
\* two images differ in shape (4 input tiles, 2 label tiles).
ShapePairs ==
    { [input |-> <<200, 200>>, output |-> <<200, 200>>],
      [input |-> <<200, 300>>, output |-> <<200, 300>>],
      [input |-> <<300, 300>>, output |-> <<300, 200>>] }

TifEntry(k) == [name |-> k, ext |-> "tif"]
OtherEntry == [name |-> 0, ext |-> "txt"]

\* listings of n '.tif' names, ascending or descending, with or without an
\* entry that is no '.tif' file in second place
Listings ==
    UNION { LET asc == [i \in 1..n |-> TifEntry(i)]
                desc == [i \in 1..n |-> TifEntry(n + 1 - i)]
                WithOther(l) == IF l = <<>> THEN <<OtherEntry>>
                                ELSE <<l[1], OtherEntry>> \o Tail(l)
            IN {asc, desc, WithOther(asc), WithOther(desc)} : n \in 0..MaxFiles }

\* the directories exist or not before the run, or one of them cannot be created
DirConfigs ==
    LET all(st) == [p \in PARTITIONS |-> [r \in ROLES |-> st]]
    IN {all("absent"), all("exists")}
       \cup {[all("absent") EXCEPT ![p][r] = "blocked"] : p \in PARTITIONS, r \in ROLES}

Init ==
    /\ IdleTile /\ IdleCodec /\ IdleGen
    /\ listing \in Listings
    /\ raw_shape \in [{e.name : e \in {x \in Range(listing) : x.ext = "tif"}} -> ShapePairs]
    /\ dir_state \in DirConfigs
    /\ files = NoFiles
    /\ pc = "start"
    /\ file_names = <<>>
    /\ partition = TRAIN
    /\ train_file_names = <<>>
    /\ validation_file_names = <<>>
    /\ file_pos = 1
    /\ input_tiles = <<>>
    /\ output_tiles = <<>>
    /\ tile_pos = 1
    /\ proc_file_index = 0

\* int(nb_files * train_ratio): the product is exact in floating point for
\* these sizes and int() truncates toward zero
nb_train_files_rounded_up(nb_files) ==
    (nb_files * train_ratio_num + train_ratio_den - 1) \div train_ratio_den

nb_train_files_of(nb_files) == (nb_files * train_ratio_num) \div train_ratio_den

EndsWithTif(e) == e.ext = "tif"

\* lines 119-125: the listing is filtered and split
ListAndSplit ==
    /\ pc = "start"
    /\ LET kept == SelectSeq(listing, EndsWithTif)
           names == [i \in DOMAIN kept |-> kept[i].name]
           nb_files == Len(names)
           nb_train_files == nb_train_files_of(nb_files)
       IN /\ file_names' = names
          /\ train_file_names' = SubSeq(names, 1, nb_train_files)
          /\ validation_file_names' = SubSeq(names, nb_train_files + 1, nb_files)
    /\ partition' = TRAIN
    /\ pc' = "makedirs"
    /\ UNCHANGED <<listing, raw_shape, dir_state, files, file_pos, input_tiles,
                   output_tiles, tile_pos, proc_file_index,
                   tile_vars, codec_vars, gen_vars>>

\* _makedirs(path): makedirs creates an absent directory; every exception
\* (the directory exists, or cannot be created) is caught and dropped
makedirs_(state) == IF state = "absent" THEN "exists" ELSE state

CurFileNames == IF partition = TRAIN THEN train_file_names ELSE validation_file_names

\* lines 130-136: the head of _process_data
MakeDirs ==
    /\ pc = "makedirs"
    /\ dir_state' = [dir_state EXCEPT ![partition] =
                        [r \in ROLES |-> makedirs_(dir_state[partition][r])]]
    /\ proc_file_index' = 0
    /\ file_pos' = 1
    /\ pc' = "for_file"
    /\ UNCHANGED <<listing, file_names, raw_shape, files, partition, train_file_names,
                   validation_file_names, input_tiles, output_tiles, tile_pos,
                   tile_vars, codec_vars, gen_vars>>

\* lines 137-142: the next file pair is loaded and tiled
LoadAndTile ==
    /\ pc = "for_file"
    /\ file_pos <= Len(CurFileNames)
    /\ LET file_name == CurFileNames[file_pos]
           output_im == load_image(OUTPUT, file_name, raw_shape[file_name].output)
           input_im == load_image(INPUT, file_name, raw_shape[file_name].input)
       IN /\ input_tiles' = tile_image(input_im, tile_size, tile_stride)
          /\ output_tiles' = tile_image(output_im, tile_size, tile_stride)
    /\ tile_pos' = 1
    /\ pc' = "for_tile"
    /\ UNCHANGED <<listing, file_names, raw_shape, dir_state, files, partition,
                   train_file_names, validation_file_names, file_pos, proc_file_index,
                   tile_vars, codec_vars, gen_vars>>

\* an uncaught exception ends process_data
Fail ==
    /\ pc' = "failed"
    /\ UNCHANGED <<listing, file_names, raw_shape, dir_state, partition,
                   train_file_names, validation_file_names, file_pos, input_tiles,
                   output_tiles, tile_pos, proc_file_index,
                   tile_vars, codec_vars, gen_vars>>

\* lines 138-139: load_image raises (a file that is missing or no image)
LoadFails ==
    /\ pc = "for_file"
    /\ file_pos <= Len(CurFileNames)
    /\ files' = files
    /\ Fail

\* line 137, list exhausted: _process_data returns; lines 150-151
PartitionDone ==
    /\ pc = "for_file"
    /\ file_pos > Len(CurFileNames)
    /\ IF partition = TRAIN
       THEN partition' = VALIDATION /\ pc' = "makedirs"
       ELSE partition' = partition /\ pc' = "done"
    /\ UNCHANGED <<listing, file_names, raw_shape, dir_state, files, train_file_names,
                   validation_file_names, file_pos, input_tiles, output_tiles,
                   tile_pos, proc_file_index, tile_vars, codec_vars, gen_vars>>

\* zip(input_tiles, output_tiles) stops with the shorter list
ZipLen(in_tiles, out_tiles) == Min(Len(in_tiles), Len(out_tiles))

\* line 144: the next pair of the zip, or the end of the inner loop
NextTilePair ==
    /\ pc = "for_tile"
    /\ IF tile_pos <= ZipLen(input_tiles, output_tiles)
       THEN pc' = "save_input" /\ file_pos' = file_pos
       ELSE pc' = "for_file" /\ file_pos' = file_pos + 1
    /\ UNCHANGED <<listing, file_names, raw_shape, dir_state, files, partition,
                   train_file_names, validation_file_names, input_tiles, output_tiles,
                   tile_pos, proc_file_index, tile_vars, codec_vars, gen_vars>>

\* save_image(join(dir, '{}.png'.format(index)), tile): the file is written,
\* over a file of the same name if there is one
save_image(dir, index, tile) == (index :> [tile |-> tile, complete |-> TRUE]) @@ dir

\* a save that raises leaves no file, or, once the file was opened in a
\* directory that exists, a file that is not complete
save_image_raises(dir, state, index, tile) ==
    {dir} \cup (IF state = "exists"
                THEN {(index :> [tile |-> tile, complete |-> FALSE]) @@ dir}
                ELSE {})

\* lines 145-146
SaveInput ==
    /\ pc = "save_input"
    /\ dir_state[partition][INPUT] = "exists"
    /\ files' = [files EXCEPT ![partition][INPUT] =
                    save_image(@, proc_file_index, input_tiles[tile_pos])]
    /\ pc' = "save_output"
    /\ UNCHANGED <<listing, file_names, raw_shape, dir_state, partition, train_file_names,
                   validation_file_names, file_pos, input_tiles, output_tiles,
                   tile_pos, proc_file_index, tile_vars, codec_vars, gen_vars>>

\* line 146 raises: the directory is not there, or the write fails
SaveInputFails ==
    /\ pc = "save_input"
    /\ \E left \in save_image_raises(files[partition][INPUT], dir_state[partition][INPUT],
                                      proc_file_index, input_tiles[tile_pos]) :
          files' = [files EXCEPT ![partition][INPUT] = left]
    /\ Fail

\* the counter stepping by two: every other file name is left out
next_file_index_skipping(index) == index + 2

\* line 148
next_file_index(index) == index + 1

\* lines 147-148
SaveOutput ==
    /\ pc = "save_output"
    /\ dir_state[partition][OUTPUT] = "exists"
    /\ files' = [files EXCEPT ![partition][OUTPUT] =
                    save_image(@, proc_file_index, output_tiles[tile_pos])]
    /\ proc_file_index' = next_file_index(proc_file_index)
    /\ tile_pos' = tile_pos + 1
    /\ pc' = "for_tile"
    /\ UNCHANGED <<listing, file_names, raw_shape, dir_state, partition, train_file_names,
                   validation_file_names, file_pos, input_tiles, output_tiles,
                   tile_vars, codec_vars, gen_vars>>

\* line 147 raises
SaveOutputFails ==
    /\ pc = "save_output"
    /\ \E left \in save_image_raises(files[partition][OUTPUT], dir_state[partition][OUTPUT],
                                      proc_file_index, output_tiles[tile_pos]) :
          files' = [files EXCEPT ![partition][OUTPUT] = left]
    /\ Fail

Next ==
    \/ ListAndSplit
    \/ MakeDirs
    \/ LoadAndTile
    \/ LoadFails
    \/ PartitionDone
    \/ NextTilePair
    \/ SaveInput
    \/ SaveInputFails
    \/ SaveOutput
    \/ SaveOutputFails

Spec == Init /\ [][Next]_vars

(***************************************************************************)
(* SpecGen: make_input_output_generator over the tiles of one partition    *)
(***************************************************************************)
\* tiles of 2 x 2 pixels as process_data leaves them under base_path: input
\* tiles hold any colours, label tiles hold colours of label_keys
GenInputTiles ==
    { << << <<10, 20, 30>>, <<255, 0, 0>> >>, << <<0, 0, 255>>, <<200, 100, 50>> >> >>,
      << << <<0, 255, 0>>, <<0, 255, 0>> >>, << <<90, 90, 90>>, <<255, 255, 255>> >> >> }
GenLabelTiles ==
    { << << <<255, 0, 0>>, <<0, 0, 255>> >>, << <<0, 255, 0>>, <<255, 255, 0>> >> >>,
      << << <<255, 255, 255>>, <<255, 255, 255>> >>, << <<0, 255, 255>>, <<255, 0, 0>> >> >> }

InitGen ==
    /\ IdleProc /\ IdleTile /\ IdleCodec
    /\ \E T \in 1..MaxTiles :
          \E ins \in [0..(T - 1) -> GenInputTiles], outs \in [0..(T - 1) -> GenLabelTiles] :
              disk = [r \in ROLES |-> IF r = INPUT THEN ins ELSE outs]
    /\ batch_size \in 1..MaxBatch
    /\ input_gen = [path |-> "none", scale |-> FALSE]
    /\ output_gen = [path |-> "none", scale |-> FALSE]
    /\ drawn = <<>>
    /\ yielded = <<>>
    /\ g_pc = "start"

\* make_data_generator(path, batch_size, shuffle, augment, scale): the
\* directory iterator over the files of path
make_data_generator(path, scale) == [path |-> path, scale |-> scale]

\* lines 177-196. The iterator behind the output batches is built at line
\* 186 on input_path; output_path of line 185 is not used.
MakeInputOutputGenerator ==
    /\ g_pc = "start"
    /\ LET input_path == INPUT
           output_path == OUTPUT
       IN /\ input_gen' = make_data_generator(input_path, TRUE)
          /\ output_gen' = make_data_generator(input_path, FALSE)
    /\ g_pc' = "ready"
    /\ UNCHANGED <<disk, batch_size, drawn, yielded, proc_vars, tile_vars, codec_vars>>

Reverse(s) == [i \in DOMAIN s |-> s[Len(s) + 1 - i]]

\* horizontal_flip reverses the columns, vertical_flip the rows
RandomTransform(x, sample) ==
    LET h == IF sample.hflip THEN [r \in DOMAIN x |-> Reverse(x[r])] ELSE x
    IN IF sample.vflip THEN Reverse(h) ELSE h

\* featurewise_center and featurewise_std_normalization, with the statistics
\* fit on the sample batch, mark the image as standardized
Standardize(gen, x) == IF gen.scale THEN [standardized |-> x] ELSE x

\* next(gen): the files the draw names, read from gen.path, flipped, standardized
NextBatch(gen, draw) ==
    [k \in DOMAIN draw |-> Standardize(gen, RandomTransform(disk[gen.path][draw[k].n], draw[k]))]

\* what one draw picks for one element of a batch. Both iterators are built
\* with shuffle=True and seed=seed over directories of the same size, so one
\* draw serves both.
Samples == [n : DOMAIN disk[INPUT], hflip : BOOLEAN, vflip : BOOLEAN]

\* next(zip(input_gen, output_gen)), lines 189-196
NextTuple ==
    /\ g_pc = "ready"
    /\ \E draw \in [1..batch_size -> Samples] :
          LET input_batch == NextBatch(input_gen, draw)
              rgb_batch == NextBatch(output_gen, draw)
          IN /\ yielded' = <<input_batch, rgb_to_one_hot_batch(rgb_batch)>>
             /\ drawn' = draw
    /\ UNCHANGED <<disk, batch_size, input_gen, output_gen, g_pc,
                   proc_vars, tile_vars, codec_vars>>

NextGen ==
    \/ MakeInputOutputGenerator
    \/ NextTuple

SpecGen == InitGen /\ [][NextGen]_vars

(***************************************************************************)
(* Claims about tile_image (SpecTile)                                      *)
(***************************************************************************)
\* the offsets the claim names: multiples of stride whose window fits
Multiples(n, stride) == {k * stride : k \in 0..(n \div stride)}

FittingOffsets(rows, cols, size, stride) ==
    {rc \in Multiples(rows, stride) \X Multiples(cols, stride) :
        rc[1] + size <= rows /\ rc[2] + size <= cols}

OffsetsOf(tiles) == [k \in DOMAIN tiles |-> <<tiles[k].row, tiles[k].col>>]

ExampleImage(n) == [name |-> "im", role |-> INPUT, rows |-> n, cols |-> n]

\* C3: tile_image returns exactly one size x size tile for each offset pair
\* (row, col) of multiples of stride with row + size <= rows and
\* col + size <= cols, in row-major order, and no tile crossing the image
\* boundary; 200x200 and 250x250 images with size 200, stride 100 give 1
\* tile, a 300x300 image the 4 tiles at (0,0),(0,100),(100,0),(100,100).
C3_TileImage ==
    /\ t_pc = "done" =>
          LET fit == FittingOffsets(t_im.rows, t_im.cols, t_size, t_stride)
              offs == OffsetsOf(t_tiles)
          IN /\ Len(t_tiles) = Cardinality(fit)
             /\ Range(offs) = fit
             /\ \A i, j \in DOMAIN offs :
                   i < j => \/ offs[i][1] < offs[j][1]
                            \/ offs[i][1] = offs[j][1] /\ offs[i][2] < offs[j][2]
             /\ \A k \in DOMAIN t_tiles :
                   /\ t_tiles[k].rows = t_size /\ t_tiles[k].cols = t_size
                   /\ t_tiles[k].row + t_size <= t_im.rows
                   /\ t_tiles[k].col + t_size <= t_im.cols
    /\ OffsetsOf(tile_image(ExampleImage(200), tile_size, tile_stride)) = << <<0, 0>> >>
    /\ OffsetsOf(tile_image(ExampleImage(250), tile_size, tile_stride)) = << <<0, 0>> >>
    /\ OffsetsOf(tile_image(ExampleImage(300), tile_size, tile_stride))
          = << <<0, 0>>, <<0, 100>>, <<100, 0>>, <<100, 100>> >>

\* tile_image has returned several tiles of an image whose last rows and
\* columns fit no tile (a window at the next offset would cross the boundary)
C3_Witness ==
    /\ t_pc = "done"
    /\ Len(t_tiles) >= 4
    /\ t_tiles[Len(t_tiles)].row + t_size < t_im.rows
    /\ t_tiles[Len(t_tiles)].col + t_size < t_im.cols
    /\ t_tiles[Len(t_tiles)].row + t_stride < t_im.rows

(***************************************************************************)
(* Claims about process_data (Spec)                                        *)
(***************************************************************************)
PartitionNames(p) == IF p = TRAIN THEN train_file_names ELSE validation_file_names

\* _process_data(p) has returned
Finished(p) == pc = "done" \/ (p = TRAIN /\ partition = VALIDATION)

Written(p, r) == DOMAIN files[p][r]

Mismatched(name) == raw_shape[name].input # raw_shape[name].output

\* the tile pairs one file name gives: the offsets that fit both of its images
TilePairsOf(name) ==
    LET in == raw_shape[name].input
        out == raw_shape[name].output
    IN Min(Cardinality(FittingOffsets(in[1], in[2], tile_size, tile_stride)),
           Cardinality(FittingOffsets(out[1], out[2], tile_size, tile_stride)))

RECURSIVE TotalTilePairs(_)
TotalTilePairs(names) ==
    IF names = <<>> THEN 0 ELSE TilePairsOf(Head(names)) + TotalTilePairs(Tail(names))

\* floor(train_ratio * n), stated without the division of the code
FloorOfRatio(n) ==
    CHOOSE k \in 0..n : /\ k * train_ratio_den <= n * train_ratio_num
                        /\ n * train_ratio_num < (k + 1) * train_ratio_den

\* C1: process_data puts the first floor(r*n) names of the listing of n
\* '.tif' names, in listing order, into the train partition and the rest, in
\* listing order, into the validation partition; the partitions are disjoint
\* and their concatenation is the whole listing (r = 0.75, n = 4: 3 and 1).
C1_Split ==
    pc # "start" =>
        LET tifs == SelectSeq(listing, EndsWithTif)
            n == Len(tifs)
            k == FloorOfRatio(n)
        IN /\ Len(train_file_names) = k
           /\ \A i \in 1..k : train_file_names[i] = tifs[i].name
           /\ Len(validation_file_names) = n - k
           /\ \A i \in 1..(n - k) : validation_file_names[i] = tifs[k + i].name
           /\ Range(train_file_names) \cap Range(validation_file_names) = {}
           /\ train_file_names \o validation_file_names = file_names
           /\ n = 4 => Len(train_file_names) = 3 /\ Len(validation_file_names) = 1
           /\ \A p \in PARTITIONS, r \in ROLES : \A N \in Written(p, r) :
                 files[p][r][N].tile.name \in Range(PartitionNames(p))

\* a listing of 4 '.tif' names and another entry has been split 3 / 1 and a
\* tile of the one validation file has been written
C1_Witness ==
    /\ Len(listing) = 5
    /\ Len(train_file_names) = 3
    /\ Len(validation_file_names) = 1
    /\ train_file_names[1] > train_file_names[2]
    /\ Written(VALIDATION, OUTPUT) # {}

\* C2: after process_data finishes a partition, its input and output
\* directories hold exactly the file names 0.png .. (T-1).png, T the number of
\* tile pairs of all source files of the partition, and for every N the files
\* input/N.png and output/N.png were cut from the same source file name at
\* the same (row, col) offset.
C2_MatchedPairs ==
    \A p \in PARTITIONS :
        Finished(p) =>
            LET T == TotalTilePairs(PartitionNames(p))
            IN /\ Written(p, INPUT) = 0..(T - 1)
               /\ Written(p, OUTPUT) = 0..(T - 1)
               /\ \A N \in 0..(T - 1) :
                     /\ files[p][INPUT][N].complete /\ files[p][OUTPUT][N].complete
                     /\ files[p][INPUT][N].tile.role = INPUT
                     /\ files[p][OUTPUT][N].tile.role = OUTPUT
                     /\ files[p][INPUT][N].tile.name = files[p][OUTPUT][N].tile.name
                     /\ files[p][INPUT][N].tile.row = files[p][OUTPUT][N].tile.row
                     /\ files[p][INPUT][N].tile.col = files[p][OUTPUT][N].tile.col

\* C8: _makedirs is create-if-absent: an existing directory is left as it is
\* and the call succeeds, and a creation that fails for another reason is
\* surfaced to the caller, so _process_data goes past line 134 only with both
\* directories of its partition in place.
C8_MakedirsSurfacesFailure ==
    /\ pc \in {"for_file", "for_tile", "save_input", "save_output"} =>
          \A r \in ROLES : dir_state[partition][r] = "exists"
    /\ pc = "done" =>
          \A p \in PARTITIONS, r \in ROLES : dir_state[p][r] = "exists"

\* C9: when the input image and the label image of a file pair differ in
\* rows or columns, process_data fails for that pair: it writes no tile of
\* the pair and does not end normally.
C9_MismatchFails ==
    /\ \A p \in PARTITIONS, r \in ROLES : \A N \in Written(p, r) :
          ~Mismatched(files[p][r][N].tile.name)
    /\ pc = "done" => \A i \in DOMAIN file_names : ~Mismatched(file_names[i])

C10_State ==
    /\ \A p \in PARTITIONS :
          LET ni == Cardinality(Written(p, INPUT))
              no == Cardinality(Written(p, OUTPUT))
          IN /\ Written(p, INPUT) = 0..(ni - 1)
             /\ Written(p, OUTPUT) = 0..(no - 1)
             /\ ni = no \/ ni = no + 1
    /\ (Written(VALIDATION, INPUT) # {} \/ Written(VALIDATION, OUTPUT) # {}) =>
          \A r \in ROLES :
              Cardinality(Written(TRAIN, r)) = TotalTilePairs(train_file_names)

C10_NoRollback ==
    \A p \in PARTITIONS, r \in ROLES : \A N \in Written(p, r) :
        /\ N \in DOMAIN files'[p][r]
        /\ files'[p][r][N] = files[p][r][N]

\* C10: in every state reached while process_data runs, also when a load or
\* a save fails, the files written so far in a partition are a gap-free
\* prefix 0.png..(m-1).png, the input tiles written are as many as the output
\* tiles or one more, nothing written is rolled back, and no validation tile
\* is written before every train tile has been written.
C10_PartialWrites == []C10_State /\ [][C10_NoRollback]_vars

\* the run was cut off by the failure of a save of an output tile in the
\* validation partition, after tile pairs of both partitions were written
C10_Witness ==
    /\ pc = "failed"
    /\ partition = VALIDATION
    /\ Written(TRAIN, OUTPUT) # {}
    /\ Cardinality(Written(VALIDATION, OUTPUT)) >= 1
    /\ Cardinality(Written(VALIDATION, INPUT)) = Cardinality(Written(VALIDATION, OUTPUT)) + 1

(***************************************************************************)
(* Claims about the label codec (SpecCodec)                                *)
(***************************************************************************)
Matches(px) == {i \in 1..nb_labels : label_keys[i] = px}

\* the index the claim names: the first matching entry, 0 when none matches
FirstMatchOrZero(px) ==
    IF Matches(px) = {} THEN 0
    ELSE (CHOOSE i \in Matches(px) : \A j \in Matches(px) : i <= j) - 1

ValidLabels(batch) ==
    \A b \in DOMAIN batch : \A r \in DOMAIN batch[b] : \A c \in DOMAIN batch[b][r] :
        batch[b][r][c] \in 0..(nb_labels - 1)

\* C5: rgb_to_label_batch gives each pixel the index of the first entry of
\* the label key table whose three channels equal the pixel's, and index 0
\* to every pixel that matches no entry.
C5_RgbToLabel ==
    ops = <<"rgb_to_label_batch">> =>
        \A b \in DOMAIN orig : \A r \in DOMAIN orig[b] : \A c \in DOMAIN orig[b][r] :
            val[b][r][c] = FirstMatchOrZero(orig[b][r][c])

\* rgb_to_label_batch has decoded a batch holding a Clutter pixel (255,0,0),
\* decoded to 5, next to a pixel that is no key of the table, decoded to 0
C5_Witness ==
    /\ ops = <<"rgb_to_label_batch">>
    /\ orig[1][1][1] = <<255, 0, 0>> /\ val[1][1][1] = 5
    /\ Matches(orig[1][1][2]) = {} /\ val[1][1][2] = 0

\* C6 as stated: for all label-index images L,
\* one_hot_to_label_batch(label_to_one_hot_batch(L)) = L.
C6_RoundTripAllLabels ==
    ops = <<"label_to_one_hot_batch", "one_hot_to_label_batch">> => val = orig

\* C6 amended: for all label-index images L whose every index is in
\* 0..nb_labels-1, one_hot_to_label_batch(label_to_one_hot_batch(L)) = L.
C6_RoundTripValidLabels ==
    (ops = <<"label_to_one_hot_batch", "one_hot_to_label_batch">> /\ ValidLabels(orig))
        => val = orig

\* a valid label image holding the last class index went through one-hot and back
C6_Witness ==
    /\ ops = <<"label_to_one_hot_batch", "one_hot_to_label_batch">>
    /\ ValidLabels(orig)
    /\ orig[1][1][1] = nb_labels - 1
    /\ orig[1][1][2] = 0
    /\ val = orig

\* C7: for all valid label-index images L (every index in 0..nb_labels-1),
\* rgb_to_label_batch(label_to_rgb_batch(L)) = L.
C7_RgbRoundTrip ==
    (ops = <<"label_to_rgb_batch", "rgb_to_label_batch">> /\ ValidLabels(orig))
        => val = orig

\* a valid label image of two different classes went through rgb and back
C7_Witness ==
    /\ ops = <<"label_to_rgb_batch", "rgb_to_label_batch">>
    /\ ValidLabels(orig)
    /\ orig[1][1][1] = nb_labels - 1
    /\ orig[1][1][2] = 1
    /\ val = orig

(***************************************************************************)
(* Claims about make_input_output_generator (SpecGen)                      *)
(***************************************************************************)
\* C4: in every tuple make_input_output_generator yields, the k-th element
\* of the output batch is the one-hot encoding of the label tile stored in
\* the output directory under the file name N of the input tile that is the
\* k-th element of the input batch, with the same flip applied to both.
C4_PairedBatches ==
    yielded # <<>> =>
        /\ Len(yielded[1]) = batch_size
        /\ Len(yielded[2]) = batch_size
        /\ \A k \in 1..batch_size :
              /\ yielded[1][k] =
                    [standardized |-> RandomTransform(disk[INPUT][drawn[k].n], drawn[k])]
              /\ yielded[2][k] =
                    rgb_to_one_hot_batch(
                        <<RandomTransform(disk[OUTPUT][drawn[k].n], drawn[k])>>)[1]

====
